---- MODULE Spec2Model ----
(***************************************************************************)
(* S-DES BMP encrypt/decrypt: the cipher of sdes.c (key schedule, block    *)
(* transform, key-string parser) and the program of bmper.c (prompts,      *)
(* header copy, ECB/CBC/CTR pixel loops).                                   *)
(***************************************************************************)
EXTENDS Integers, Sequences, FiniteSets, TLC

VARIABLES
    pc,            \* where the program (or the caller of the library) is
    err,           \* the message the program ended with ("" for none)
    nread,         \* lines read from standard input so far
    do_encrypt,    \* main: int do_encrypt
    keybits,       \* the key string handed to sdes_parse_key10_bits
    rc,            \* what sdes_parse_key10_bits returned (NoRc before the call)
    key10,         \* uint16_t key10, the target of out_key10
    K1, K2,        \* uint8_t K1, K2
    mode_s,        \* main: char mode_s[], after toupper
    mode,          \* sdes_mode_t mode
    iv_or_nonce,   \* uint8_t iv_or_nonce
    fi,            \* the bytes of the input file
    rpos,          \* bytes of fi read so far
    fo,            \* the bytes written to the output file
    offBits,       \* int offBits
    prev,          \* CBC: uint8_t prev
    ctr,           \* CTR: uint8_t ctr
    blk,           \* caller of the library: the block it encrypts
    enc,           \* caller of the library: sdes_encrypt_byte(blk)
    dec,           \* caller of the library: sdes_decrypt_byte(enc)
    calls,         \* calls of sdes_encrypt_byte and sdes_decrypt_byte so far
    run,           \* 1 in the first run of the program, 2 in the run on its output
    orig           \* the input file of the first run

vars == << pc, err, nread, do_encrypt, keybits, rc, key10, K1, K2, mode_s, mode,
           iv_or_nonce, fi, rpos, fo, offBits, prev, ctr, blk, enc, dec, calls,
           run, orig >>

keyVars  == << keybits, rc, key10, K1, K2 >>
modeVars == << mode_s, mode, iv_or_nonce >>
fileVars == << fi, rpos, fo, offBits, prev, ctr, calls >>
libVars  == << blk, enc, dec >>
runVars  == << run, orig >>

-----------------------------------------------------------------------------
(* C integer operations on non-negative values *)

Nibble == 0..15

RECURSIVE and_bits(_, _)
and_bits(a, b) ==
    IF a = 0 \/ b = 0 THEN 0
    ELSE (a % 2) * (b % 2) + 2 * and_bits(a \div 2, b \div 2)

RECURSIVE or_bits(_, _)
or_bits(a, b) ==
    IF a = 0 THEN b
    ELSE IF b = 0 THEN a
    ELSE (IF a % 2 = 1 \/ b % 2 = 1 THEN 1 ELSE 0) + 2 * or_bits(a \div 2, b \div 2)

RECURSIVE xor_bits(_, _)
xor_bits(a, b) ==
    IF a = 0 THEN b
    ELSE IF b = 0 THEN a
    ELSE ((a + b) % 2) + 2 * xor_bits(a \div 2, b \div 2)

(* &, | and ^ of two 4-bit values, computed once *)
and4 == [a \in Nibble |-> [b \in Nibble |-> and_bits(a, b)]]
or4  == [a \in Nibble |-> [b \in Nibble |-> or_bits(a, b)]]
xor4 == [a \in Nibble |-> [b \in Nibble |-> xor_bits(a, b)]]

(* &, | and ^ of two non-negative integers, four bits at a time *)
RECURSIVE BitAnd(_, _)
BitAnd(a, b) ==
    IF a < 16 \/ b < 16 THEN and4[a % 16][b % 16]
    ELSE and4[a % 16][b % 16] + 16 * BitAnd(a \div 16, b \div 16)

RECURSIVE BitOr(_, _)
BitOr(a, b) ==
    IF a < 16 /\ b < 16 THEN or4[a][b]
    ELSE or4[a % 16][b % 16] + 16 * BitOr(a \div 16, b \div 16)

RECURSIVE BitXor(_, _)
BitXor(a, b) ==
    IF a < 16 /\ b < 16 THEN xor4[a][b]
    ELSE xor4[a % 16][b % 16] + 16 * BitXor(a \div 16, b \div 16)

Pow2(n) == 2 ^ n

Shl(x, n) == x * Pow2(n)
Shr(x, n) == x \div Pow2(n)
U8(x)  == x % 256
U16(x) == x % 65536

-----------------------------------------------------------------------------
(* sdes.c: tables *)

P10    == << 3, 5, 2, 7, 4, 10, 1, 9, 8, 6 >>
P8     == << 6, 3, 7, 4, 8, 5, 10, 9 >>
IP     == << 2, 6, 3, 1, 4, 8, 5, 7 >>
IP_INV == << 4, 1, 3, 5, 7, 2, 8, 6 >>
EP     == << 4, 1, 2, 3, 2, 3, 4, 1 >>
P4     == << 2, 4, 3, 1 >>

S0 == << << 1, 0, 3, 2 >>,
         << 3, 2, 1, 0 >>,
         << 0, 2, 1, 3 >>,
         << 3, 1, 3, 2 >> >>
S1 == << << 0, 1, 2, 3 >>,
         << 2, 0, 1, 3 >>,
         << 3, 0, 1, 0 >>,
         << 2, 1, 0, 3 >> >>

(* sdes.c: helpers *)

get_bit(x, index_from_left, nbits) ==
    LET pos_from_right == nbits - index_from_left
    IN  BitAnd(Shr(x, pos_from_right), 1)

RECURSIVE permute_from(_, _, _, _, _)
permute_from(in, tab, inbits, i, out) ==
    IF i > Len(tab) THEN out
    ELSE LET bit == get_bit(in, tab[i], inbits)
         IN  permute_from(in, tab, inbits, i + 1,
                          U16(BitOr(Shl(out, 1), BitAnd(bit, 1))))

permute(in, tab, inbits) == permute_from(in, tab, inbits, 1, 0)

(* a rotation that loses the bits shifted out: a shift *)
rol_without_wrap(val, sh, width) ==
    LET mask == U16(Pow2(width) - 1)
    IN  BitAnd(Shl(BitAnd(val, mask), sh), mask)

rol(val, sh, width) ==
    LET mask == U16(Pow2(width) - 1)
        v    == BitAnd(val, mask)
    IN  BitAnd(BitOr(Shl(v, sh), Shr(v, width - sh)), mask)

Byte  == 0..255
Key10 == 0..1023

generate_subkeys(k) ==
    LET p10    == permute(k, P10, 10)
        left0  == BitAnd(Shr(p10, 5), 31)
        right0 == BitAnd(p10, 31)
        left1  == rol(left0, 1, 5)
        right1 == rol(right0, 1, 5)
        ls1    == U16(BitOr(Shl(left1, 5), right1))
        k1     == U8(permute(ls1, P8, 10))
        left2  == rol(left1, 2, 5)
        right2 == rol(right1, 2, 5)
        ls2    == U16(BitOr(Shl(left2, 5), right2))
        k2     == U8(permute(ls2, P8, 10))
    IN  << k1, k2 >>

(* the key schedule of every 10-bit key, computed once *)
subkeys_of == [k \in Key10 |-> generate_subkeys(k)]

sdes_generate_subkeys(k) == subkeys_of[k]

(* fk, from the expansion of R to P4: the 4 bits XORed into L *)
fk_p4(R, subkey) ==
    LET EPout  == U8(permute(R, EP, 4))
        x      == BitXor(EPout, subkey)
        left4  == BitAnd(Shr(x, 4), 15)
        right4 == BitAnd(x, 15)
        r0     == BitOr(Shr(BitAnd(left4, 8), 2), BitAnd(left4, 1))
        c0     == BitAnd(Shr(left4, 1), 3)
        r1     == BitOr(Shr(BitAnd(right4, 8), 2), BitAnd(right4, 1))
        c1     == BitAnd(Shr(right4, 1), 3)
        s0     == S0[r0 + 1][c0 + 1]
        s1     == S1[r1 + 1][c1 + 1]
        s      == U8(BitOr(Shl(s0, 2), s1))
    IN  U8(permute(s, P4, 4))

(* fk_p4 of every right half and subkey, computed once *)
fk_p4_of == [R \in Nibble |-> [subkey \in Byte |-> fk_p4(R, subkey)]]

fk_round(in, subkey) ==
    LET L    == BitAnd(Shr(in, 4), 15)
        R    == BitAnd(in, 15)
        p4   == fk_p4_of[R][subkey]
        outL == BitXor(L, p4)
    IN  U8(BitOr(Shl(outL, 4), R))

(* fk, ip, ip_inv and swap_halves of every byte, computed once *)
fk_of      == [in \in Byte |-> [subkey \in Byte |-> fk_round(in, subkey)]]
ip_of      == [x \in Byte |-> U8(permute(x, IP, 8))]
ip_inv_of  == [x \in Byte |-> U8(permute(x, IP_INV, 8))]
swap_of    == [x \in Byte |-> U8(BitOr(Shl(x, 4), Shr(x, 4)))]

fk(in, subkey) == fk_of[in][subkey]
ip(x)          == ip_of[x]
ip_inv(x)      == ip_inv_of[x]
swap_halves(x) == swap_of[x]

sdes_encrypt_byte(in, k1, k2) ==
    ip_inv(fk(swap_halves(fk(ip(in), k1)), k2))

(* a decryption that applies the subkeys in the order of the encryption *)
sdes_decrypt_byte_k1_first(in, k1, k2) ==
    ip_inv(fk(swap_halves(fk(ip(in), k1)), k2))

sdes_decrypt_byte(in, k1, k2) ==
    ip_inv(fk(swap_halves(fk(ip(in), k2)), k1))


-----------------------------------------------------------------------------
(* sdes.c: sdes_parse_key10_bits.  A string is the sequence of its          *)
(* characters; the end of the sequence is the terminating NUL.              *)

RC_OK         == 0
RC_INVALID    == -2
RC_TOO_SHORT  == -3
MIN_KEY_CHARS == 10
KEY_MASK      == 1023

(* not yet returned, not yet read, not yet written: values the code never makes *)
NoRc      == RC_OK + 1
NoToken   == << "none" >>
Unwritten == 0 - 1

is_bit(ch)   == ch = "0" \/ ch = "1"
(* a parser that skips every character that is no bit *)
is_blank_or_other(ch) == ch # "0" /\ ch # "1" /\ ch # "\n" /\ ch # "\r"

is_blank(ch) == ch = " " \/ ch = "\t"
is_eol(ch)   == ch = "\n" \/ ch = "\r"

bit_of(ch) == IF ch = "1" THEN 1 ELSE 0

(* k = (k << 1) | (ch - '0'), stored in a uint16_t *)
shift_in(k, ch) == U16(BitOr(Shl(k, 1), bit_of(ch)))

(* after the loop: n characters were scanned, k holds the bits *)
(* a parser that writes the accumulator without the mask *)
parse_finish_unmasked(n, k) ==
    IF n < MIN_KEY_CHARS
    THEN [code |-> RC_TOO_SHORT, wrote |-> FALSE, value |-> 0]
    ELSE [code |-> RC_OK, wrote |-> TRUE, value |-> k]

parse_finish(n, k) ==
    IF n < MIN_KEY_CHARS
    THEN [code |-> RC_TOO_SHORT, wrote |-> FALSE, value |-> 0]
    ELSE [code |-> RC_OK, wrote |-> TRUE, value |-> BitAnd(k, KEY_MASK)]

(* the loop, as a function of the C index n and the accumulator k, so that *)
(* each iteration works on evaluated values                                 *)
parse_loop(bits) ==
    LET scan[n \in 0..Len(bits), k \in 0..65535] ==
            IF n = Len(bits) \/ is_eol(bits[n + 1]) THEN parse_finish(n, k)
            ELSE IF is_bit(bits[n + 1]) THEN scan[n + 1, shift_in(k, bits[n + 1])]
            ELSE IF is_blank(bits[n + 1]) THEN scan[n + 1, k]
            ELSE [code |-> RC_INVALID, wrote |-> FALSE, value |-> 0]
    IN  scan[0, 0]

sdes_parse_key10_bits(bits) == parse_loop(bits)

-----------------------------------------------------------------------------
(* Bounds of the model *)

\* key strings over '0', '1', ' ' up to this length
MaxKeyLen == 11
\* key strings over every character up to this length
MaxOddKeyLen == 3

Seqs(S, n) == UNION { [1..m -> S] : m \in 0..n }

KeyChars    == { "0", "1", " " }
AnyKeyChars == { "0", "1", " ", "\t", "x", "2", "\n", "\r" }

Key12345 == << "1", "2", "3", "4", "5" >>
Key10x   == << "1", "0", "x", "0", "0", "0", "0", "0", "0", "0" >>
KeyKAT   == << "1", "0", "1", "0", "0", "0", "0", "0", "1", "0" >>

KeyStrings ==
    Seqs(KeyChars, MaxKeyLen) \cup Seqs(AnyKeyChars, MaxOddKeyLen)
        \cup { Key12345, Key10x, KeyKAT }

-----------------------------------------------------------------------------
(* The states in which a part of the program is not in use *)

NoProgram ==
    /\ err = "" /\ nread = 0 /\ do_encrypt = 0
    /\ mode_s = NoToken /\ mode = "MODE_ECB" /\ iv_or_nonce = 0
    /\ fi = << >> /\ rpos = 0 /\ fo = << >> /\ offBits = 0
    /\ prev = 0 /\ ctr = 0 /\ calls = 0 /\ run = 1 /\ orig = << >>

NoLibCaller == blk = 0 /\ enc = 0 /\ dec = 0

-----------------------------------------------------------------------------
(* A caller of sdes_parse_key10_bits: one call on a key string *)

InitParse ==
    /\ pc = "parse"
    /\ keybits \in KeyStrings
    /\ rc = NoRc /\ key10 = Unwritten /\ K1 = 0 /\ K2 = 0
    /\ NoProgram /\ NoLibCaller

ParseKey ==
    /\ pc = "parse"
    /\ LET r == sdes_parse_key10_bits(keybits)
       IN  /\ rc' = r.code
           /\ key10' = IF r.wrote THEN r.value ELSE key10
    /\ pc' = "parsed"
    /\ UNCHANGED << err, nread, do_encrypt, keybits, K1, K2, modeVars, fileVars,
                    libVars, runVars >>

NextParse == ParseKey

SpecParse == InitParse /\ [][NextParse]_vars

-----------------------------------------------------------------------------
(* A caller of the cipher: key schedule, one encryption, its decryption *)

InitCipher ==
    /\ pc = "lib"
    /\ key10 \in Key10
    /\ keybits = << >> /\ rc = NoRc /\ K1 = 0 /\ K2 = 0
    /\ NoProgram /\ NoLibCaller

GenerateSubkeys ==
    /\ pc = "lib"
    /\ K1' = sdes_generate_subkeys(key10)[1]
    /\ K2' = sdes_generate_subkeys(key10)[2]
    /\ pc' = "keyed"
    /\ UNCHANGED << err, nread, do_encrypt, keybits, rc, key10, modeVars,
                    fileVars, libVars, runVars >>

EncryptByte ==
    /\ pc = "keyed"
    /\ \E b \in Byte :
          /\ blk' = b
          /\ enc' = sdes_encrypt_byte(b, K1, K2)
    /\ pc' = "encrypted"
    /\ calls' = calls + 1
    /\ UNCHANGED << err, nread, do_encrypt, keyVars, modeVars, fi, rpos, fo,
                    offBits, prev, ctr, dec, runVars >>

DecryptByte ==
    /\ pc = "encrypted"
    /\ dec' = sdes_decrypt_byte(enc, K1, K2)
    /\ pc' = "decrypted"
    /\ calls' = calls + 1
    /\ UNCHANGED << err, nread, do_encrypt, keyVars, modeVars, fi, rpos, fo,
                    offBits, prev, ctr, blk, enc, runVars >>

NextCipher == GenerateSubkeys \/ EncryptByte \/ DecryptByte

SpecCipher == InitCipher /\ [][NextCipher]_vars

-----------------------------------------------------------------------------
(* bmper.c: helpers of main *)

HEADER_LEN == 54
(* what a prompt reads at the end of standard input: no line *)
EOF == << "EOF" >>

trim_newline(s) ==
    LET keep[n \in 0..Len(s)] ==
            IF n > 0 /\ is_eol(s[n]) THEN keep[n - 1] ELSE n
    IN  SubSeq(s, 1, keep[Len(s)])

(* prompt_yesno: buf[0]=='y' || buf[0]=='Y', -1 at end of input *)
prompt_yesno(line) ==
    IF line = EOF THEN -1
    ELSE IF Len(line) > 0 /\ (line[1] = "y" \/ line[1] = "Y") THEN 1
    ELSE 0

Lower == << "a", "b", "c", "d", "e", "f", "g", "h", "i", "j", "k", "l", "m",
            "n", "o", "p", "q", "r", "s", "t", "u", "v", "w", "x", "y", "z" >>
Upper == << "A", "B", "C", "D", "E", "F", "G", "H", "I", "J", "K", "L", "M",
            "N", "O", "P", "Q", "R", "S", "T", "U", "V", "W", "X", "Y", "Z" >>
Digits == << "0", "1", "2", "3", "4", "5", "6", "7", "8", "9" >>

IndexIn(seq, ch) ==
    IF \E i \in 1..Len(seq) : seq[i] = ch
    THEN CHOOSE i \in 1..Len(seq) : seq[i] = ch
    ELSE 0

toupper(ch) == IF IndexIn(Lower, ch) > 0 THEN Upper[IndexIn(Lower, ch)] ELSE ch

upper_case(s) == [i \in 1..Len(s) |-> toupper(s[i])]

ModeCBC == << "C", "B", "C" >>
ModeCTR == << "C", "T", "R" >>
ModeECB == << "E", "C", "B" >>

(* the strcmp chain on the upper-cased token; "" for an unknown token *)
select_mode(token) ==
    IF token = ModeCBC THEN "MODE_CBC"
    ELSE IF token = ModeCTR THEN "MODE_CTR"
    ELSE IF token # ModeECB THEN ""
    ELSE "MODE_ECB"

(* the value of a character as a digit in the base, -1 if it is none *)
digit_value(ch, base) ==
    LET d == IF IndexIn(Digits, ch) > 0 THEN IndexIn(Digits, ch) - 1
             ELSE IF IndexIn(Lower, ch) > 0 THEN IndexIn(Lower, ch) + 9
             ELSE IF IndexIn(Upper, ch) > 0 THEN IndexIn(Upper, ch) + 9
             ELSE -1
    IN  IF d < base THEN d ELSE -1

is_space(ch) == ch \in { " ", "\t", "\n", "\r" }

(* strtoul(s, NULL, base) for base 10 and 16, on strings short enough not to *)
(* overflow: white space, a sign, "0x" in base 16, then the digits          *)
strtoul(s, base) ==
    LET at(i) == IF i <= Len(s) THEN s[i] ELSE "NUL"
        skip[i \in 1..(Len(s) + 1)] ==
            IF is_space(at(i)) THEN skip[i + 1] ELSE i
        i0   == skip[1]
        neg  == at(i0) = "-"
        i1   == IF at(i0) = "-" \/ at(i0) = "+" THEN i0 + 1 ELSE i0
        i2   == IF /\ base = 16
                   /\ at(i1) = "0"
                   /\ (at(i1 + 1) = "x" \/ at(i1 + 1) = "X")
                   /\ digit_value(at(i1 + 2), 16) >= 0
                THEN i1 + 2 ELSE i1
        acc[i \in 1..(Len(s) + 1), v \in Nat] ==
            IF digit_value(at(i), base) >= 0
            THEN acc[i + 1, v * base + digit_value(at(i), base)]
            ELSE v
        val  == acc[i2, 0]
    IN  IF neg THEN 0 - val ELSE val

(* a conversion to uint8_t *)
ToU8(x) == ((x % 256) + 256) % 256

(* strncasecmp(ivs,"0x",2)==0 selects base 16 *)
parse_iv(ivs) ==
    IF Len(ivs) >= 2 /\ ivs[1] = "0" /\ (ivs[2] = "x" \/ ivs[2] = "X")
    THEN ToU8(strtoul(ivs, 16))
    ELSE ToU8(strtoul(ivs, 10))

(* read_uint32_le, where no shift overflows int: p[3] < 128 *)
read_uint32_le(p) ==
    BitOr(BitOr(BitOr(p[1], Shl(p[2], 8)), Shl(p[3], 16)), Shl(p[4], 24))

(* read_uint32_le where p[3] << 24 overflows int and the build wraps: the  *)
(* low 31 bits, less 2^31                                                   *)
read_uint32_le_wrapped(p) ==
    (read_uint32_le(<< p[1], p[2], p[3], p[4] - 128 >>) - 1073741824) - 1073741824

clamp_offBits(raw) == IF raw < HEADER_LEN THEN HEADER_LEN ELSE raw

(* main from the fread of the header to the end of the copy of everything   *)
(* before offBits.  raw is what read_uint32_le returned, mallocOk whether   *)
(* malloc returned a buffer.                                                *)
copy_header(file, raw, mallocOk) ==
    LET header == SubSeq(file, 1, HEADER_LEN)
        off    == clamp_offBits(raw)
        extra  == off - HEADER_LEN
        avail  == Len(file) - HEADER_LEN
        r      == IF extra < avail THEN extra ELSE avail
    IN  IF Len(file) < HEADER_LEN
        THEN [msg |-> "Not a BMP (short header)", written |-> << >>,
              consumed |-> Len(file), boundary |-> 0]
        ELSE IF file[1] # 66 \/ file[2] # 77
        THEN [msg |-> "Not a BMP (missing 'BM')", written |-> << >>,
              consumed |-> HEADER_LEN, boundary |-> 0]
        ELSE IF off > HEADER_LEN /\ ~mallocOk
        THEN [msg |-> "OOM", written |-> header, consumed |-> HEADER_LEN,
              boundary |-> off]
        ELSE IF off > HEADER_LEN /\ r # extra
        THEN [msg |-> "Unexpected EOF reading palette/headers", written |-> header,
              consumed |-> HEADER_LEN + r, boundary |-> off]
        ELSE IF off > HEADER_LEN
        THEN [msg |-> "", written |-> header \o SubSeq(file, HEADER_LEN + 1, off),
              consumed |-> HEADER_LEN + extra, boundary |-> off]
        ELSE [msg |-> "", written |-> header, consumed |-> HEADER_LEN,
              boundary |-> off]

(* one iteration of the loop that main runs for the direction and the mode: *)
(* the byte it writes for the byte c it read                                *)
(* a CTR decryption whose keystream is the decryption of the counter *)
pixel_out_ctr_decrypts(enc_dir, m, c, k1, k2, pv, ct) ==
    IF enc_dir # 0
    THEN IF m = "MODE_ECB" THEN sdes_encrypt_byte(c, k1, k2)
         ELSE IF m = "MODE_CBC" THEN sdes_encrypt_byte(BitXor(c, pv), k1, k2)
         ELSE BitXor(c, sdes_encrypt_byte(ct, k1, k2))
    ELSE IF m = "MODE_ECB" THEN sdes_decrypt_byte(c, k1, k2)
         ELSE IF m = "MODE_CBC" THEN BitXor(sdes_decrypt_byte(c, k1, k2), pv)
         ELSE BitXor(c, sdes_decrypt_byte(ct, k1, k2))

pixel_out(enc_dir, m, c, k1, k2, pv, ct) ==
    IF enc_dir # 0
    THEN IF m = "MODE_ECB" THEN sdes_encrypt_byte(c, k1, k2)
         ELSE IF m = "MODE_CBC" THEN sdes_encrypt_byte(BitXor(c, pv), k1, k2)
         ELSE BitXor(c, sdes_encrypt_byte(ct, k1, k2))
    ELSE IF m = "MODE_ECB" THEN sdes_decrypt_byte(c, k1, k2)
         ELSE IF m = "MODE_CBC" THEN BitXor(sdes_decrypt_byte(c, k1, k2), pv)
         ELSE BitXor(c, sdes_encrypt_byte(ct, k1, k2))

(* prev after the iteration that read c and wrote out: prev = out when      *)
(* encrypting, prev = (uint8_t)c when decrypting                            *)
(* a CBC decryption that chains on the plaintext it produced *)
prev_after_chains_output(enc_dir, m, c, out, pv) ==
    IF m = "MODE_CBC" THEN out ELSE pv

(* a CBC encryption that never leaves the IV *)
prev_after_keeps_iv(enc_dir, m, c, out, pv) ==
    IF m = "MODE_CBC" THEN (IF enc_dir # 0 THEN pv ELSE c) ELSE pv

prev_after(enc_dir, m, c, out, pv) ==
    IF m = "MODE_CBC" THEN (IF enc_dir # 0 THEN out ELSE c) ELSE pv

(* ctr after the iteration: ctr++ on a uint8_t *)
ctr_after(m, ct) == IF m = "MODE_CTR" THEN U8(ct + 1) ELSE ct

-----------------------------------------------------------------------------
(* The inputs of the program *)

\* bytes that follow the 54-byte header, at most
MaxPixels == 2
\* those bytes are 0..MaxPixelByte
MaxPixelByte == 1

PixelBytes == 0..MaxPixelByte

Line(s) == s \o << "\n" >>

KeySpaced == << "1", " ", "1", " ", "1", " ", "1", " ", "1", " ", "1" >>
KeyEleven == << "1", "1", "1", "1", "1", "1", "1", "1", "1", "1", "0" >>
KeyShort  == << "1", "0", "1" >>

YesNoLines == { << "y", "\n" >>, << "Y", "e", "s", "\n" >>, << "n", "\n" >>, << "\n" >> }
KeyLines   == { Line(KeyKAT), Line(Key12345), Line(Key10x), Line(KeySpaced),
                Line(KeyShort), KeyEleven }
ModeLines  == { << "e", "c", "b", "\n" >>, << "c", "b", "c", "\n" >>,
                << "C", "t", "r", "\r", "\n" >>, << "C", "T", "R" >>,
                << "x", "y", "z", "\n" >>, << "\n" >> }
IvLines    == { << "0", "x", "A", "3", "\n" >>, << "2", "3", "\n" >>,
                << "z", "z", "\n" >>, << "3", "0", "0", "\n" >> }

(* a 54-byte header: the magic, bfOffBits at offset 10, zero elsewhere *)
BmpHeader(magic, off) ==
    [i \in 1..HEADER_LEN |->
        IF i <= 2 THEN magic[i]
        ELSE IF i >= 11 /\ i <= 14 THEN off[i - 10]
        ELSE 0]

Magics    == { << 66, 77 >>, << 66, 0 >> }
OffFields == { << 0, 0, 0, 0 >>, << 54, 0, 0, 0 >>, << 55, 0, 0, 0 >>,
               << 56, 0, 0, 0 >>, << 60, 0, 0, 0 >>, << 0, 1, 0, 0 >>,
               << 0, 0, 0, 128 >>, << 56, 0, 0, 255 >> }

Files ==
    { BmpHeader(m, o) \o t : m \in Magics, o \in OffFields,
                             t \in Seqs(PixelBytes, MaxPixels) }
        \cup { << >>, SubSeq(BmpHeader(<< 66, 77 >>, << 54, 0, 0, 0 >>), 1, 53) }

-----------------------------------------------------------------------------
(* bmper.c: main, one action per prompt, then the files *)

Init ==
    /\ pc = "start"
    /\ err = "" /\ nread = 0 /\ do_encrypt = 0
    /\ keybits = << >> /\ rc = NoRc /\ key10 = 0 /\ K1 = 0 /\ K2 = 0
    /\ mode_s = NoToken /\ mode = "MODE_ECB" /\ iv_or_nonce = 0
    /\ fi = << >> /\ rpos = 0 /\ fo = << >> /\ offBits = 0
    /\ prev = 0 /\ ctr = 0 /\ calls = 0 /\ run = 1 /\ orig = << >>
    /\ NoLibCaller

ReadYesNo ==
    /\ pc = "start"
    /\ \E line \in YesNoLines \cup { EOF } :
          /\ do_encrypt' = prompt_yesno(line)
          /\ pc'  = IF prompt_yesno(line) < 0 THEN "failed" ELSE "key"
          /\ err' = IF prompt_yesno(line) < 0 THEN "Input error." ELSE ""
    /\ nread' = nread + 1
    /\ UNCHANGED << keyVars, modeVars, fileVars, libVars, runVars >>

(* a main that goes on to the mode prompt whatever the parser returned *)
ReadKeyUnchecked ==
    /\ pc = "key"
    /\ \E line \in KeyLines \cup { EOF } :
          IF line = EOF
          THEN /\ pc' = "failed" /\ err' = "Key input error."
               /\ UNCHANGED keyVars
          ELSE LET r == sdes_parse_key10_bits(trim_newline(line))
                   k == IF r.wrote THEN r.value ELSE key10
               IN  /\ keybits' = trim_newline(line)
                   /\ rc' = r.code
                   /\ key10' = k
                   /\ pc' = "mode" /\ err' = ""
                   /\ K1' = sdes_generate_subkeys(k)[1]
                   /\ K2' = sdes_generate_subkeys(k)[2]
    /\ nread' = nread + 1
    /\ UNCHANGED << do_encrypt, modeVars, fileVars, libVars, runVars >>

ReadKey ==
    /\ pc = "key"
    /\ \E line \in KeyLines \cup { EOF } :
          IF line = EOF
          THEN /\ pc' = "failed" /\ err' = "Key input error."
               /\ UNCHANGED keyVars
          ELSE LET r == sdes_parse_key10_bits(trim_newline(line))
               IN  /\ keybits' = trim_newline(line)
                   /\ rc' = r.code
                   /\ key10' = IF r.wrote THEN r.value ELSE key10
                   /\ IF r.code # RC_OK
                      THEN /\ pc' = "failed"
                           /\ err' = "Invalid key string (need 10 bits of 0/1)."
                           /\ UNCHANGED << K1, K2 >>
                      ELSE /\ pc' = "mode" /\ err' = ""
                           /\ K1' = sdes_generate_subkeys(r.value)[1]
                           /\ K2' = sdes_generate_subkeys(r.value)[2]
    /\ nread' = nread + 1
    /\ UNCHANGED << do_encrypt, modeVars, fileVars, libVars, runVars >>

ReadMode ==
    /\ pc = "mode"
    /\ \E line \in ModeLines \cup { EOF } :
          IF line = EOF
          THEN /\ pc' = "failed" /\ err' = "Mode input error."
               /\ UNCHANGED << mode_s, mode >>
          ELSE LET token == upper_case(trim_newline(line))
                   m     == select_mode(token)
               IN  /\ mode_s' = token
                   /\ IF m = ""
                      THEN /\ pc' = "failed"
                           /\ err' = "Unknown mode. Use ECB, CBC, or CTR."
                           /\ UNCHANGED mode
                      ELSE /\ pc' = IF m = "MODE_ECB" THEN "open" ELSE "iv"
                           /\ err' = ""
                           /\ mode' = m
    /\ nread' = nread + 1
    /\ UNCHANGED << do_encrypt, keyVars, iv_or_nonce, fileVars, libVars, runVars >>

ReadIv ==
    /\ pc = "iv"
    /\ \E line \in IvLines \cup { EOF } :
          IF line = EOF
          THEN /\ pc' = "failed" /\ err' = "IV/nonce input error."
               /\ UNCHANGED iv_or_nonce
          ELSE /\ iv_or_nonce' = parse_iv(trim_newline(line))
               /\ pc' = "open" /\ err' = ""
    /\ nread' = nread + 1
    /\ UNCHANGED << do_encrypt, keyVars, mode_s, mode, fileVars, libVars, runVars >>

(* the two path prompts and the two fopen calls *)
OpenFiles ==
    /\ pc = "open"
    /\ \E how \in { "eof1", "eof2", "no input", "no output", "ok" } :
          /\ nread' = IF how = "eof1" THEN nread + 1 ELSE nread + 2
          /\ pc'  = IF how = "ok" THEN "header" ELSE "failed"
          /\ err' = CASE how = "ok"        -> ""
                      [] how = "no input"  -> "open input"
                      [] how = "no output" -> "open output"
                      [] OTHER             -> "(path input)"
          /\ IF how = "ok"
             THEN \E f \in Files : fi' = f /\ orig' = f
             ELSE UNCHANGED << fi, orig >>
    /\ UNCHANGED << do_encrypt, keyVars, modeVars, rpos, fo, offBits, prev, ctr,
                    calls, libVars, run >>

(* p[3] << 24 overflows int when p[3] >= 128 *)
shift_overflows(file) == Len(file) >= HEADER_LEN /\ file[14] >= 128

off_field(file) == SubSeq(file, 11, 14)

(* fread of the header up to the copy of everything before offBits.  Where  *)
(* the shift overflows, the build either wraps or stops the program.        *)
CopyHeader ==
    /\ pc = "header"
    /\ \E mallocOk \in BOOLEAN, overflow \in { "wraps", "traps" } :
          IF /\ shift_overflows(fi) /\ fi[1] = 66 /\ fi[2] = 77
             /\ overflow = "traps"
          THEN /\ pc' = "failed" /\ err' = "(signed overflow)"
               /\ rpos' = HEADER_LEN
               /\ UNCHANGED << fo, offBits, prev, ctr >>
          ELSE LET raw == IF Len(fi) < HEADER_LEN THEN 0
                          ELSE IF shift_overflows(fi)
                               THEN read_uint32_le_wrapped(off_field(fi))
                               ELSE read_uint32_le(off_field(fi))
                   r   == copy_header(fi, raw, mallocOk)
               IN  /\ fo' = r.written
                   /\ rpos' = r.consumed
                   /\ offBits' = r.boundary
                   /\ err' = r.msg
                   /\ pc' = IF r.msg = "" THEN "pixels" ELSE "failed"
                   /\ prev' = IF r.msg = "" /\ mode = "MODE_CBC" THEN iv_or_nonce ELSE prev
                   /\ ctr'  = IF r.msg = "" /\ mode = "MODE_CTR" THEN iv_or_nonce ELSE ctr
    /\ UNCHANGED << nread, do_encrypt, keyVars, modeVars, fi, calls, libVars, runVars >>

(* one iteration of the pixel loop: fgetc, the cipher, fputc *)
ProcessByte ==
    /\ pc = "pixels"
    /\ rpos < Len(fi)
    /\ fo' = Append(fo, pixel_out(do_encrypt, mode, fi[rpos + 1], K1, K2, prev, ctr))
    /\ prev' = prev_after(do_encrypt, mode, fi[rpos + 1], fo'[Len(fo')], prev)
    /\ ctr' = ctr_after(mode, ctr)
    /\ rpos' = rpos + 1
    /\ calls' = calls + 1
    /\ UNCHANGED << pc, err, nread, do_encrypt, keyVars, modeVars, fi, offBits,
                    libVars, runVars >>

(* fgetc returns EOF: fclose both, "Done.", return 0 *)
Finish ==
    /\ pc = "pixels"
    /\ rpos = Len(fi)
    /\ pc' = "done"
    /\ UNCHANGED << err, nread, do_encrypt, keyVars, modeVars, fileVars, libVars,
                    runVars >>

Next ==
    \/ ReadYesNo \/ ReadKey \/ ReadMode \/ ReadIv \/ OpenFiles
    \/ CopyHeader \/ ProcessByte \/ Finish

Spec == Init /\ [][Next]_vars

-----------------------------------------------------------------------------
(* Two runs of the program on one image: the first encrypts it, the second  *)
(* is given the output of the first with the same key, mode and IV.  The    *)
(* first run starts where its prompts are answered and its files are open.  *)

ModeKeys   == { KeyKAT, KeyEleven }
ModeTokens == { ModeECB, ModeCBC, ModeCTR }
ModeFiles  ==
    { BmpHeader(<< 66, 77 >>, << 54, 0, 0, 0 >>) \o t : t \in Seqs(PixelBytes, MaxPixels) }

InitModes ==
    /\ pc = "header"
    /\ err = ""
    /\ do_encrypt = 1
    /\ keybits \in ModeKeys
    /\ rc = sdes_parse_key10_bits(keybits).code
    /\ key10 = sdes_parse_key10_bits(keybits).value
    /\ K1 = sdes_generate_subkeys(key10)[1]
    /\ K2 = sdes_generate_subkeys(key10)[2]
    /\ mode_s \in ModeTokens
    /\ mode = select_mode(mode_s)
    /\ iv_or_nonce \in (IF mode = "MODE_ECB" THEN { 0 } ELSE Byte)
    /\ nread = IF mode = "MODE_ECB" THEN 5 ELSE 6
    /\ fi \in ModeFiles
    /\ orig = fi
    /\ rpos = 0 /\ fo = << >> /\ offBits = 0
    /\ prev = 0 /\ ctr = 0 /\ calls = 0 /\ run = 1
    /\ NoLibCaller

(* the second run, from its first prompt to the end of its header copy *)
Rerun ==
    /\ pc = "done"
    /\ run = 1
    /\ ~shift_overflows(fo)
    /\ \E d \in { 0, 1 } : do_encrypt' = d
    /\ LET r == copy_header(fo, read_uint32_le(off_field(fo)), TRUE)
       IN  /\ r.msg = ""
           /\ fi' = fo
           /\ fo' = r.written
           /\ rpos' = r.consumed
           /\ offBits' = r.boundary
    /\ prev' = IF mode = "MODE_CBC" THEN iv_or_nonce ELSE prev
    /\ ctr'  = IF mode = "MODE_CTR" THEN iv_or_nonce ELSE ctr
    /\ calls' = 0
    /\ run' = 2
    /\ pc' = "pixels"
    /\ UNCHANGED << err, nread, keyVars, modeVars, libVars, orig >>

NextModes == CopyHeader \/ ProcessByte \/ Finish \/ Rerun

SpecModes == InitModes /\ [][NextModes]_vars

-----------------------------------------------------------------------------
(* What the claims speak of *)

(* the value of a sequence of bits, the first the most significant *)
BitsValue(bs) ==
    LET val[i \in 0..Len(bs)] ==
            IF i = 0 THEN 0 ELSE 2 * val[i - 1] + bs[i]
    IN  val[Len(bs)]

(* the characters of a string before its end: the first CR or LF, or the NUL *)
BeforeEnd(str) ==
    LET stop[i \in 1..(Len(str) + 1)] ==
            IF i > Len(str) \/ str[i] \in { "\n", "\r" } THEN i ELSE stop[i + 1]
    IN  SubSeq(str, 1, stop[1] - 1)

(* the significant characters of a key string, as bits, in order *)
SigBits(str) ==
    LET body == BeforeEnd(str)
        pick[i \in 0..Len(body)] ==
            IF i = 0 THEN << >>
            ELSE IF body[i] = "1" THEN Append(pick[i - 1], 1)
            ELSE IF body[i] = "0" THEN Append(pick[i - 1], 0)
            ELSE pick[i - 1]
    IN  pick[Len(body)]

FirstTen(bs) == SubSeq(bs, 1, IF Len(bs) < 10 THEN Len(bs) ELSE 10)

OnlyBitsAndBlanks(str) ==
    \A i \in 1..Len(str) : str[i] \in { "0", "1", " ", "\t" }

(* the bytes after the 54-byte header *)
Pixels(file) == SubSeq(file, HEADER_LEN + 1, Len(file))

(* n < bfOffBits, the unsigned 32-bit little-endian field at offsets 10..13 *)
(* of the file, for an n below 2^24                                         *)
BelowBfOffBits(n, file) ==
    LET p == off_field(file)
    IN  p[4] > 0 \/ n < p[1] + 256 * p[2] + 65536 * p[3]

(* the offset n is below max(54, bfOffBits) *)
InHeaderArea(n, file) == n < HEADER_LEN \/ BelowBfOffBits(n, file)

(* the number of offsets of the file at or after max(54, bfOffBits) *)
PixelCount(file) ==
    Cardinality({ n \in 0..(Len(file) - 1) : ~InHeaderArea(n, file) })

-----------------------------------------------------------------------------
(* C1: for every 10-bit key and every 8-bit block, decrypting the           *)
(* encryption of the block under the subkeys of the key gives the block.    *)
C1_Involution ==
    pc = "decrypted" =>
        /\ K1 = sdes_generate_subkeys(key10)[1]
        /\ K2 = sdes_generate_subkeys(key10)[2]
        /\ dec = blk

(* C1: a block whose ciphertext differs from it has been decrypted *)
C1_Witness ==
    /\ pc = "decrypted"
    /\ key10 = 1023 /\ blk = 255 /\ enc # blk /\ dec = blk

(* C4, as claimed: the key 1010000010 gives K1 = 10100100 and K2 = 10010100 *)
C4_ClaimedSubkeys ==
    (pc = "keyed" /\ key10 = BitsValue(<< 1, 0, 1, 0, 0, 0, 0, 0, 1, 0 >>)) =>
        /\ K1 = BitsValue(<< 1, 0, 1, 0, 0, 1, 0, 0 >>)
        /\ K2 = BitsValue(<< 1, 0, 0, 1, 0, 1, 0, 0 >>)

(* C4, amended: the key 1010000010 gives K1 = 10100100 and K2 = 01000011,   *)
(* the subkeys of the textbook example.                                     *)
C4_TextbookSubkeys ==
    (pc = "keyed" /\ key10 = BitsValue(<< 1, 0, 1, 0, 0, 0, 0, 0, 1, 0 >>)) =>
        /\ K1 = BitsValue(<< 1, 0, 1, 0, 0, 1, 0, 0 >>)
        /\ K2 = BitsValue(<< 0, 1, 0, 0, 0, 0, 1, 1 >>)

(* C4: the key schedule has run on the key 1010000010 *)
C4_Witness ==
    /\ pc = "keyed"
    /\ key10 = BitsValue(<< 1, 0, 1, 0, 0, 0, 0, 0, 1, 0 >>)
    /\ K1 # 0 /\ K2 # 0

-----------------------------------------------------------------------------
(* C2: CBC round trip.  When the second run has decrypted, in CBC mode and  *)
(* with the same key and IV, what the first run encrypted, its output is    *)
(* the input of the first run, byte for byte and of the same length; this   *)
(* holds for an image with no pixel bytes too.                              *)
C2_CbcRoundTrip ==
    (pc = "done" /\ run = 2 /\ mode = "MODE_CBC" /\ do_encrypt = 0) => fo = orig

(* C2: two pixel bytes, changed by the encryption, have been decrypted *)
C2_Witness ==
    /\ pc = "done" /\ run = 2 /\ mode = "MODE_CBC" /\ do_encrypt = 0
    /\ Len(Pixels(orig)) = 2
    /\ iv_or_nonce # 0
    /\ Pixels(fi)[1] # Pixels(orig)[1] /\ Pixels(fi)[2] # Pixels(orig)[2]
    /\ calls = 2

(* C3: CTR round trip.  The CTR loop run a second time, in either           *)
(* direction, with the same start counter on the output of the first run    *)
(* gives the input of the first run; and after i bytes the counter is       *)
(* (ctr0 + i) mod 256, so it wraps from 255 to 0.                           *)
C3_CtrRoundTrip ==
    /\ (pc = "done" /\ run = 2 /\ mode = "MODE_CTR") => fo = orig
    /\ (pc \in { "pixels", "done" } /\ mode = "MODE_CTR") =>
           ctr = (iv_or_nonce + (rpos - HEADER_LEN)) % 256

(* C3: a second run whose counter started at 255 and wrapped *)
C3_Witness ==
    /\ pc = "done" /\ run = 2 /\ mode = "MODE_CTR" /\ do_encrypt = 0
    /\ iv_or_nonce = 255
    /\ Len(Pixels(orig)) = 2
    /\ ctr = 1
    /\ fi # orig /\ fo = orig

(* the second byte the ECB encrypt loop writes for the pixels of the file *)
EcbSecond(file) == pixel_out(1, "MODE_ECB", Pixels(file)[2], K1, K2, 0, 0)

(* the first run has encrypted in CBC mode, with a nonzero IV, pixels whose *)
(* first two bytes are equal                                                *)
C5_Case ==
    /\ pc = "done" /\ run = 1 /\ mode = "MODE_CBC" /\ do_encrypt = 1
    /\ iv_or_nonce # 0
    /\ Len(Pixels(fi)) >= 2
    /\ Pixels(fi)[1] = Pixels(fi)[2]

(* C5, as claimed: in that case the second ciphertext byte of the CBC loop  *)
(* differs from the second ciphertext byte of the ECB loop.                 *)
C5_AlwaysDiverges ==
    C5_Case => Pixels(fo)[2] # EcbSecond(fi)

(* C5, amended: in that case the two second ciphertext bytes differ exactly *)
(* when the first ciphertext byte of the CBC loop is not zero.              *)
C5_DivergesUnlessZeroChain ==
    C5_Case => ((Pixels(fo)[2] # EcbSecond(fi)) <=> (Pixels(fo)[1] # 0))

(* C5: a CBC encryption of two equal bytes that differs from ECB *)
C5_Witness ==
    /\ C5_Case
    /\ Pixels(fo)[1] # 0
    /\ Pixels(fo)[2] # EcbSecond(fi)

-----------------------------------------------------------------------------
(* the parser rejected the key string *)
KeyRejected == rc # NoRc /\ rc # RC_OK

(* the mode token was read and is none of ECB, CBC, CTR *)
ModeRejected == mode_s # NoToken /\ select_mode(mode_s) = ""

(* a prompt for the direction, the key, the mode or the IV found no line *)
PromptFailed ==
    err \in { "Input error.", "Key input error.", "Mode input error.",
              "IV/nonce input error." }

NothingDone == fo = << >> /\ fi = << >> /\ calls = 0

C10_HeaderPreserved ==
    pc = "done" =>
        /\ Len(fo) = Len(fi)
        /\ \A n \in 0..(Len(fi) - 1) :
               InHeaderArea(n, fi) => fo[n + 1] = fi[n + 1]
        /\ calls = PixelCount(fi)

-----------------------------------------------------------------------------
(* C7, as claimed: "12345" is rejected as too short (-3) and "10x0000000"   *)
(* as of invalid format (-2).                                               *)
C7_ClaimedFixtures ==
    pc = "parsed" =>
        /\ keybits = Key12345 => rc = RC_TOO_SHORT
        /\ keybits = Key10x   => rc = RC_INVALID

(* C7, amended: "12345" and "10x0000000" are both rejected as of invalid    *)
(* format (-2): the '2' of "12345" is found before the length is looked at; *)
(* neither call writes the key.                                             *)
C7_BothInvalidFormat ==
    pc = "parsed" =>
        /\ keybits = Key12345 => rc = RC_INVALID /\ key10 = Unwritten
        /\ keybits = Key10x   => rc = RC_INVALID /\ key10 = Unwritten

(* C7: the parser has returned on "12345" *)
C7_Witness ==
    pc = "parsed" /\ keybits = Key12345 /\ rc # NoRc

(* C8: a key string of '0', '1', space and tab only with fewer than ten     *)
(* significant characters is rejected as too short (-3), and the key is     *)
(* not written.                                                             *)
C8_ShortKeyRejected ==
    (pc = "parsed" /\ OnlyBitsAndBlanks(keybits) /\ Len(SigBits(keybits)) < 10) =>
        /\ rc = RC_TOO_SHORT
        /\ key10 = Unwritten

(* C9, as claimed: an accepted key is the value of the first ten            *)
(* significant characters.                                                  *)
C9_FirstTenBits ==
    (pc = "parsed" /\ rc = RC_OK) => key10 = BitsValue(FirstTen(SigBits(keybits)))

(* C9, amended: an accepted key is the value of all the significant         *)
(* characters before the end of the string, the first the most significant, *)
(* modulo 2^10: of more than ten significant bits the last ten decide.      *)
C9_LowTenBits ==
    (pc = "parsed" /\ rc = RC_OK) => key10 = BitsValue(SigBits(keybits)) % 1024

(* C9: an accepted key string of eleven significant bits *)
C9_Witness ==
    /\ pc = "parsed" /\ rc = RC_OK
    /\ Len(SigBits(keybits)) = 11
    /\ key10 # BitsValue(FirstTen(SigBits(keybits)))

====
